---- MODULE Spec2Model ----
(***************************************************************************)
(* Sightings API worker (src/worker.js) over the sightings table           *)
(* (src/schema.sql) and the IMAGES key-value namespace.                    *)
(*                                                                         *)
(* Every request is an independent handler; handlers interleave at their   *)
(* awaits.  A call on a store takes effect when it is issued, so an action *)
(* is a handler's code up to and including its next store call.  Time is   *)
(* counted in seconds: Date.now() is the variable now, and the code's      *)
(* millisecond and second constants are both expressed in seconds.         *)
(***************************************************************************)
EXTENDS Integers, Sequences, FiniteSets, TLC

\* ---------------------------------------------------------------- bounds
MaxReq == 3
MaxLen == 2
MaxYears == 1
MaxRows == 3

\* ------------------------------------------------------ program constants
TitleMax == 120
DescriptionMax == 5000
NameMax == 80
EmailMax == 120
MeterMin == 1
MeterMax == 10
MaxPhotos == 1
MaxBytes == 1 * 1024 * 1024
FeedDefault == 20
FeedMax == 50
\* env.ADMIN_PASSWORD, the operator secret of the deployment
AdminPassword == <<"s">>
CutoffSec == 48 * 60 * 60
TtlSec == 60 * 60 * 24 * 365
AllowedTypes == {"image/jpeg", "image/png", "image/webp"}
Anonymous == <<"A", "n", "o", "n", "y", "m", "o", "u", "s">>

VARIABLES DB, IMAGES, now, req

vars == <<DB, IMAGES, now, req>>

\* ------------------------------------------------------------ JS helpers
\* null / a missing form field, and a present value
Absent == <<>>
Present(v) == <<v>>

\* x || d  for a form field holding a string: null and '' are falsy
OrElse(x, d) == IF x = Absent THEN d ELSE IF x[1] = <<>> THEN d ELSE x[1]

IsSpace(c) == c = " "

RECURSIVE TrimStart(_)
TrimStart(str) ==
  IF str = <<>> THEN <<>>
  ELSE IF IsSpace(Head(str)) THEN TrimStart(Tail(str)) ELSE str

RECURSIVE TrimEnd(_)
TrimEnd(str) ==
  IF str = <<>> THEN <<>>
  ELSE IF IsSpace(str[Len(str)]) THEN TrimEnd(SubSeq(str, 1, Len(str) - 1)) ELSE str

\* String.prototype.trim
Trim(str) == TrimEnd(TrimStart(str))

\* String.prototype.slice(0, n)
Slice(str, n) == SubSeq(str, 1, IF Len(str) < n THEN Len(str) ELSE n)

\* JS numbers as far as the meter needs them: an integer or NaN
NaN == [nan |-> TRUE, v |-> 0]
Num(v) == [nan |-> FALSE, v |-> v]

Digits == {"0", "1", "2", "3", "4", "5", "6", "7", "8", "9"}
DigitVal(c) ==
  CASE c = "0" -> 0 [] c = "1" -> 1 [] c = "2" -> 2 [] c = "3" -> 3
    [] c = "4" -> 4 [] c = "5" -> 5 [] c = "6" -> 6 [] c = "7" -> 7
    [] c = "8" -> 8 [] c = "9" -> 9

RECURSIVE DigitsValue(_, _)
DigitsValue(str, acc) ==
  IF str = <<>> THEN acc ELSE DigitsValue(Tail(str), acc * 10 + DigitVal(Head(str)))

AllDigits(str) == str # <<>> /\ \A i \in 1..Len(str) : str[i] \in Digits

\* Number(string): whitespace is trimmed, '' is 0, a signed run of digits is
\* its value, anything else is NaN
Number(str) ==
  LET t == Trim(str) IN
  IF t = <<>> THEN Num(0)
  ELSE IF AllDigits(t) THEN Num(DigitsValue(t, 0))
  ELSE IF Head(t) \in {"-", "+"} /\ AllDigits(Tail(t))
       THEN Num(IF Head(t) = "-" THEN 0 - DigitsValue(Tail(t), 0) ELSE DigitsValue(Tail(t), 0))
  ELSE NaN

\* Math.min / Math.max: NaN if either argument is NaN
MathMin(a, b) ==
  IF a.nan \/ b.nan THEN NaN ELSE IF a.v < b.v THEN a ELSE b
MathMax(a, b) ==
  IF a.nan \/ b.nan THEN NaN ELSE IF a.v > b.v THEN a ELSE b

\* String.prototype.toLowerCase on the content types that occur
ToLowerCase(type) ==
  CASE type = "IMAGE/PNG" -> "image/png"
    [] type = "Image/Jpeg" -> "image/jpeg"
    [] OTHER -> type

\* ------------------------------------------------------- handler locals
\* worker.js:109-114
Title(form) == Slice(Trim(OrElse(form.title, <<>>)), TitleMax)
Description(form) == Slice(Trim(OrElse(form.description, <<>>)), DescriptionMax)
Name(form) ==
  LET n == Slice(Trim(OrElse(form.name, <<>>)), NameMax) IN
  IF n = <<>> THEN Anonymous ELSE n
Email(form) == Slice(Trim(OrElse(form.email, <<>>)), EmailMax)
Meter(form) ==
  MathMax(Num(MeterMin), MathMin(Num(MeterMax), Number(OrElse(form.suspicious_meter, <<"1">>))))
\* any value of the consent field taken as consent
ConsentAnyValue(form) == form.consent # Absent
Consent(form) == form.consent = Present("on") \/ form.consent = Present("true")

\* worker.js:104
IsMultipart(form) == form.contentType = "multipart/form-data"

\* worker.js:130
ImageKey(id, index) == <<id, index>>

\* worker.js:124-129: the parts of files.slice(0, 1) that reach IMAGES.put
FileAccepted(file) ==
  /\ file.kind = "file"
  /\ ToLowerCase(file.type) \in AllowedTypes
  /\ ~(file.size > MaxBytes)
AcceptedFiles(form) ==
  SelectSeq(SubSeq(form.photos, 1, IF Len(form.photos) < MaxPhotos THEN Len(form.photos) ELSE MaxPhotos),
            FileAccepted)

\* ------------------------------------------------------------ the stores
NULL == <<>>

\* KV: put replaces the entry of the key; an entry is readable until its
\* expiration; delete removes it
KvPut(kv, key, type, expiration) ==
  {e \in kv : e.key # key} \cup {[key |-> key, type |-> type, expiration |-> expiration]}
KvDelete(kv, key) == {e \in kv : e.key # key}
KvLive(kv, key, time) == \E e \in kv : e.key = key /\ time < e.expiration

\* D1 statements of worker.js on the sightings table
SqlInsert(db, row) == db \cup {row}
SqlSelectPhotos(db, id) == {r \in db : r.id = id}
SqlDelete(db, id) == {r \in db : r.id # id}
\* the UPDATE without its status condition
ApproveMatchesAnyStatus(r, id) == r.id = id
ApproveMatches(r, id) == r.id = id /\ r.status = "pending"
\* the UPDATE setting the status alone
SqlApproveNoTime(db, id, time) ==
  {IF r.id = id /\ r.status = "pending" THEN [r EXCEPT !.status = "approved"] ELSE r : r \in db}
\* the UPDATE stamping approved_at on an approved row again
SqlApproveRestamp(db, id, time) ==
  {IF r.id = id THEN [r EXCEPT !.status = "approved", !.approved_at = Present(time)] ELSE r :
     r \in db}
SqlApprove(db, id, time) ==
  {IF ApproveMatches(r, id)
     THEN [r EXCEPT !.status = "approved", !.approved_at = Present(time)]
     ELSE r : r \in db}
\* the response reporting the success flag as the count
SqlApproveChangesOne(db, id) == 1
SqlApproveChanges(db, id) == Cardinality({r \in db : ApproveMatches(r, id)})
\* the DELETE comparing with <=
ExpireMatchesAtCutoff(r, cutoff) == r.status = "pending" /\ r.submitted_at <= cutoff
ExpireMatches(r, cutoff) == r.status = "pending" /\ r.submitted_at < cutoff
\* the trigger deleting nothing
SqlExpireNone(db, cutoff) == db
SqlExpire(db, cutoff) == {r \in db : ~ExpireMatches(r, cutoff)}

\* ORDER BY approved_at DESC and ORDER BY submitted_at ASC: a row that may
\* come before another; NULL sorts lowest; rows with equal keys come in
\* any order
ApprovedKey(r) == IF r.approved_at = NULL THEN 0 - 1 ELSE r.approved_at[1]
\* the feed ordered ascending
ApprovedBeforeAsc(a, b) == ApprovedKey(a) <= ApprovedKey(b)
ApprovedBefore(a, b) == ApprovedKey(a) >= ApprovedKey(b)
SubmittedBefore(a, b) == a.submitted_at <= b.submitted_at

RECURSIVE OrdersDesc(_)
OrdersDesc(rows) ==
  IF rows = {} THEN {<<>>}
  ELSE UNION {{<<r>> \o rest : rest \in OrdersDesc(rows \ {r})} :
                r \in {x \in rows : \A y \in rows : ApprovedBefore(x, y)}}

RECURSIVE OrdersAsc(_)
OrdersAsc(rows) ==
  IF rows = {} THEN {<<>>}
  ELSE UNION {{<<r>> \o rest : rest \in OrdersAsc(rows \ {r})} :
                r \in {x \in rows : \A y \in rows : SubmittedBefore(x, y)}}

\* LIMIT ? OFFSET ?: a negative limit is no limit, a negative offset is 0
SqlPage(rows, limit, offset) ==
  LET skip == IF offset < 0 THEN 0 ELSE offset
      left == IF Len(rows) > skip THEN Len(rows) - skip ELSE 0
      take == IF limit < 0 \/ limit > left THEN left ELSE limit IN
  SubSeq(rows, skip + 1, skip + take)

\* worker.js:147-148
Limit(query) ==
  MathMin(Num(FeedMax),
          IF query.limit = Absent \/ query.limit = Present(<<>>)
            THEN Num(FeedDefault) ELSE Number(query.limit[1]))
Offset(query) ==
  MathMax(Num(0),
          IF query.offset = Absent \/ query.offset = Present(<<>>)
            THEN Num(0) ELSE Number(query.offset[1]))

\* the public item with the reporter's email in it
FeedItemWithEmail(r) ==
  [id |-> r.id, title |-> r.title, description |-> r.description,
   name |-> IF r.name = <<>> THEN Anonymous ELSE r.name, email |-> r.email,
   suspicious_meter |-> r.suspicious_meter, photos |-> r.photos,
   submitted_at |-> r.submitted_at, approved_at |-> r.approved_at]
\* worker.js:156-165
FeedItem(r) ==
  [id |-> r.id, title |-> r.title, description |-> r.description,
   name |-> IF r.name = <<>> THEN Anonymous ELSE r.name,
   suspicious_meter |-> r.suspicious_meter, photos |-> r.photos,
   submitted_at |-> r.submitted_at, approved_at |-> r.approved_at]
\* worker.js:175-184
PendingItem(r) ==
  [id |-> r.id, title |-> r.title, description |-> r.description, name |-> r.name,
   email |-> r.email, suspicious_meter |-> r.suspicious_meter, photos |-> r.photos,
   submitted_at |-> r.submitted_at]

\* the queue query without its status condition
PendingMatchesAll(r) == TRUE
FeedMatches(r) == r.status = "approved"
PendingMatches(r) == r.status = "pending"

\* worker.js:146-167: the responses the feed may give; a NaN binding is
\* NULL, which LIMIT and OFFSET refuse, and fetch answers 500
ListApproved(db, query) ==
  IF Limit(query).nan \/ Offset(query).nan
    THEN {[status |-> 500, items |-> <<>>]}
    ELSE {[status |-> 200,
           items |-> LET page == SqlPage(rows, Limit(query).v, Offset(query).v) IN
                     [i \in 1..Len(page) |-> FeedItem(page[i])]] :
            rows \in OrdersDesc({r \in db : FeedMatches(r)})}

\* worker.js:169-186: the responses the moderation queue may give
ListPending(db) ==
  {[status |-> 200, items |-> [i \in 1..Len(rows) |-> PendingItem(rows[i])]] :
     rows \in OrdersAsc({r \in db : PendingMatches(r)})}

\* creds.split(':'): the pieces between the colons
RECURSIVE Split(_)
Split(str) ==
  IF \A i \in 1..Len(str) : str[i] # ":" THEN <<str>>
  ELSE LET i == CHOOSE k \in 1..Len(str) :
                  str[k] = ":" /\ \A j \in 1..(k - 1) : str[j] # ":" IN
       <<SubSeq(str, 1, i - 1)>> \o Split(SubSeq(str, i + 1, Len(str)))

\* worker.js:94-100: an Authorization header is its scheme prefix and what
\* follows it, which atob decodes to creds or, when it is not base64,
\* throws on. The answer is "true", "false" or "throws".
IsAuthorized(auth) ==
  IF auth = Absent THEN "false"
  ELSE IF auth[1].scheme # "Basic " THEN "false"
  ELSE IF ~auth[1].base64 THEN "throws"
  ELSE LET parts == Split(auth[1].creds)
           pass == IF Len(parts) >= 2 THEN Present(parts[2]) ELSE Absent IN
       IF pass = Present(AdminPassword) THEN "true" ELSE "false"

\* schema.sql:7: suspicious_meter INTEGER NOT NULL; a NaN binding is stored
\* as NULL, which the constraint refuses
MeterConstraintOk(meter) == ~meter.nan

\* worker.js:208-217
HandleImage(key) == IF KvLive(IMAGES, key, now) THEN 200 ELSE 404

\* ----------------------------------------------------------------- inputs
Chars == {" ", "a"}
RECURSIVE Strings(_)
Strings(n) ==
  IF n = 0 THEN {<<>>}
  ELSE LET shorter == Strings(n - 1) IN
       shorter \cup {Append(str, c) : str \in {x \in shorter : Len(x) = n - 1}, c \in Chars}
Texts == {Absent} \cup {Present(str) : str \in Strings(MaxLen)}

Meters ==
  {Absent, Present(<<"0">>), Present(<<"5">>), Present(<<"9", "9">>),
   Present(<<"-", "3">>), Present(<<"b", "a", "n", "a", "n", "a">>)}
Consents == {Absent, Present("on"), Present("true"), Present("yes")}

File(type, size) == [kind |-> "file", type |-> type, size |-> size]
TextPart == [kind |-> "string", type |-> "", size |-> 0]
Jpeg == File("image/jpeg", 1024)
PhotoLists ==
  {<<>>, <<Jpeg>>, <<File("IMAGE/PNG", MaxBytes)>>, <<File("image/webp", MaxBytes + 1)>>,
   <<File("image/gif", 1024)>>, <<TextPart>>, <<File("image/gif", 1024), Jpeg>>,
   <<File("image/png", MaxBytes + 1), Jpeg>>}

Form(ct, title, description, name, email, meter, consent, photos) ==
  [contentType |-> ct, title |-> title, description |-> description, name |-> name,
   email |-> email, suspicious_meter |-> meter, consent |-> consent, photos |-> photos]

EmptyForm == Form("", Absent, Absent, Absent, Absent, Absent, Absent, <<>>)

\* every combination of field values
AllForms ==
  {Form(ct, t, d, Absent, Present(<<"a">>), m, c, p) :
     ct \in {"multipart/form-data", "application/json"}, t \in Texts,
     d \in {Absent, Present(<<" ">>), Present(<<"a">>)},
     m \in Meters, c \in Consents, p \in PhotoLists}

\* the submissions the lifecycle is explored with
Valid(meter, photos) ==
  Form("multipart/form-data", Present(<<"a">>), Present(<<"a">>), Absent, Present(<<"a">>),
       meter, Present("on"), photos)
Forms == {Valid(Present(<<"5">>), <<>>), Valid(Absent, <<Jpeg>>)}

\* the limit and offset parameters of the feed
Limits ==
  {Absent, Present(<<"0">>), Present(<<"1">>), Present(<<"-", "1">>), Present(<<"5", "1">>),
   Present(<<"b", "a", "n", "a", "n", "a">>)}
Offsets == {Absent, Present(<<"1">>), Present(<<"-", "1">>), Present(<<"b", "a", "n", "a", "n", "a">>)}
Query(limit, offset) == [limit |-> limit, offset |-> offset]
NoQuery == Query(Absent, Absent)

\* tables the feed is read from: over MaxRows ids every choice of absent,
\* pending or approved rows, and one table of FeedMax + 1 approved rows
Row(id, submitted, approved, status) ==
  [id |-> id, title |-> <<"a">>, description |-> <<"a">>, name |-> Anonymous,
   email |-> <<"a">>, suspicious_meter |-> 1, photos |-> <<>>, submitted_at |-> submitted,
   approved_at |-> approved, status |-> status]
RowChoices(id) ==
  {{}} \cup {{Row(id, t, NULL, "pending")} : t \in 0..1}
       \cup {{Row(id, t, Present(u), "approved")} : t \in 0..1, u \in 1..2}
RECURSIVE Tables(_)
Tables(n) ==
  IF n = 0 THEN {{}}
  ELSE {table \cup choice : table \in Tables(n - 1), choice \in RowChoices(n)}
FullTable == {Row(id, 0, Present(id), "approved") : id \in 1..(FeedMax + 1)}
FeedTables == Tables(MaxRows) \cup {FullTable}

\* the instants the clock visits: the start, the two sides of the expiry
\* cutoff of a record submitted at the start, and the blob lifetimes
Instants == {0, CutoffSec, CutoffSec + 1} \cup {c * TtlSec : c \in 1..MaxYears}

Slots == 1..MaxReq
\* an id no record ever had
UnknownId == 0

\* Authorization headers: none, another scheme, Basic with text that is not
\* base64, Basic with credentials around the operator secret
Header(scheme, base64, creds) == [scheme |-> scheme, base64 |-> base64, creds |-> creds]
Credentials ==
  {<<"u", ":", "s">>, <<"u", ":", "x">>, <<"u">>, <<":", "s">>, <<"s">>,
   <<"u", ":", "s", ":", "x">>, <<>>}
Authorizations ==
  {Absent, Present(Header("Bearer ", TRUE, <<"u", ":", "s">>)),
   Present(Header("Basic ", FALSE, <<>>))}
    \cup {Present(Header("Basic ", TRUE, creds)) : creds \in Credentials}

\* requests to /api/admin/*: the route is the path after the prefix, the id
\* its last segment
Methods == {"GET", "POST", "OPTIONS"}
Routes == {"pending", "approve", "reject", "other"}
AdminIds == {1, UnknownId}
Request(method, route, id, auth) ==
  [method |-> method, route |-> route, id |-> id, auth |-> auth]
NoRequest == Request("", "", UnknownId, Absent)
AdminRequests ==
  {Request(method, route, id, auth) :
     method \in Methods, route \in Routes, id \in AdminIds, auth \in Authorizations}

\* ------------------------------------------------------------- requests
Idle ==
  [op |-> "idle", pc |-> "idle", id |-> UnknownId, form |-> EmptyForm, photos |-> <<>>,
   index |-> 0, found |-> FALSE, status |-> 0, changes |-> 0, query |-> NoQuery,
   items |-> <<>>, request |-> NoRequest, challenge |-> FALSE]

\* slots are taken in order; a slot serves one request
CanBegin(s) == req[s].op = "idle" /\ (IF s = 1 THEN TRUE ELSE req[s - 1].op # "idle")

\* json(data, status)
Respond(r, status) == [r EXCEPT !.pc = "done", !.status = status]

\* ids a client has been told: the 201 response of create (worker.js:143)
Known == {s \in Slots : req[s].op = "create" /\ req[s].pc = "done" /\ req[s].status = 201}
PathIds == Known \cup {UnknownId}

Init ==
  /\ DB = {}
  /\ IMAGES = {}
  /\ now = 0
  /\ req = [s \in Slots |-> Idle]

\* worker.js:102-134: validation and the photo loop with its IMAGES.put.
\* crypto.randomUUID() is the slot number: unique per request.
HandleCreateSighting(s, form) ==
  /\ CanBegin(s)
  /\ LET r == [Idle EXCEPT !.op = "create", !.form = form]
         files == AcceptedFiles(form)
         key == ImageKey(s, 0) IN
     IF ~IsMultipart(form) \/ Title(form) = <<>> \/ Description(form) = <<>> \/ ~Consent(form)
       THEN /\ req' = [req EXCEPT ![s] = Respond(r, 400)]
            /\ IMAGES' = IMAGES
       ELSE IF files # <<>>
       THEN /\ IMAGES' = KvPut(IMAGES, key, ToLowerCase(files[1].type), now + TtlSec)
            /\ req' = [req EXCEPT ![s] =
                 [r EXCEPT !.pc = "insert", !.id = s, !.photos = <<key>>, !.index = 1]]
       ELSE /\ IMAGES' = IMAGES
            /\ req' = [req EXCEPT ![s] = [r EXCEPT !.pc = "insert", !.id = s]]
  /\ UNCHANGED <<DB, now>>

\* the row bound with approved_at already set
NewRowStamped(r, time) ==
  [id |-> r.id, title |-> Title(r.form), description |-> Description(r.form),
   name |-> Name(r.form), email |-> Email(r.form), suspicious_meter |-> Meter(r.form).v,
   photos |-> r.photos, submitted_at |-> time, approved_at |-> Present(time), status |-> "pending"]

\* worker.js:136-141: the bound row
NewRow(r, time) ==
  [id |-> r.id, title |-> Title(r.form), description |-> Description(r.form),
   name |-> Name(r.form), email |-> Email(r.form), suspicious_meter |-> Meter(r.form).v,
   photos |-> r.photos, submitted_at |-> time, approved_at |-> NULL, status |-> "pending"]

\* worker.js:136-143: submitted_at, the INSERT and the 201; a refused row
\* throws and fetch answers 500 (worker.js:72-75)
CreateInsert(s) ==
  /\ req[s].op = "create" /\ req[s].pc = "insert"
  /\ IF MeterConstraintOk(Meter(req[s].form))
       THEN /\ DB' = SqlInsert(DB, NewRow(req[s], now))
            /\ req' = [req EXCEPT ![s] = Respond(req[s], 201)]
       ELSE /\ DB' = DB
            /\ req' = [req EXCEPT ![s] = Respond(req[s], 500)]
  /\ UNCHANGED <<IMAGES, now>>

\* the failed record write compensated by deleting the blobs
CreateInsertFailsRollback(s) ==
  /\ req[s].op = "create" /\ req[s].pc = "insert"
  /\ req' = [req EXCEPT ![s] = Respond(req[s], 500)]
  /\ IMAGES' = {e \in IMAGES : e.key \notin {req[s].photos[i] : i \in 1..Len(req[s].photos)}}
  /\ UNCHANGED <<DB, now>>

\* worker.js:138-141, 72-75: the record write fails
CreateInsertFails(s) ==
  /\ req[s].op = "create" /\ req[s].pc = "insert"
  /\ req' = [req EXCEPT ![s] = Respond(req[s], 500)]
  /\ UNCHANGED <<DB, IMAGES, now>>

\* worker.js:188-194
HandleApprove(s, id) ==
  /\ CanBegin(s)
  /\ DB' = SqlApprove(DB, id, now)
  /\ req' = [req EXCEPT ![s] =
       Respond([req[s] EXCEPT !.op = "approve", !.id = id, !.changes = SqlApproveChanges(DB, id)], 200)]
  /\ UNCHANGED <<IMAGES, now>>

\* worker.js:196-199: the SELECT
HandleReject(s, id) ==
  /\ CanBegin(s)
  /\ LET rows == SqlSelectPhotos(DB, id) IN
     req' = [req EXCEPT ![s] =
       [req[s] EXCEPT !.op = "reject", !.pc = "delete", !.id = id,
                    !.found = rows # {},
                    !.photos = IF rows = {} THEN <<>> ELSE (CHOOSE r \in rows : TRUE).photos]]
  /\ UNCHANGED <<DB, IMAGES, now>>

\* the DELETE answering at once, the blobs left where they are
RejectDeleteOnly(s) ==
  /\ req[s].op = "reject" /\ req[s].pc = "delete"
  /\ DB' = SqlDelete(DB, req[s].id)
  /\ req' = [req EXCEPT ![s] = Respond(req[s], 200)]
  /\ UNCHANGED <<IMAGES, now>>

\* worker.js:200
RejectDelete(s) ==
  /\ req[s].op = "reject" /\ req[s].pc = "delete"
  /\ DB' = SqlDelete(DB, req[s].id)
  /\ req' = [req EXCEPT ![s] =
       IF req[s].photos = <<>> THEN Respond(req[s], 200) ELSE [req[s] EXCEPT !.pc = "blobs"]]
  /\ UNCHANGED <<IMAGES, now>>

\* worker.js:201-204
RejectBlob(s) ==
  /\ req[s].op = "reject" /\ req[s].pc = "blobs"
  /\ LET r == req[s] IN
     /\ IMAGES' = KvDelete(IMAGES, r.photos[r.index + 1])
     /\ req' = [req EXCEPT ![s] =
          IF r.index + 1 < Len(r.photos) THEN [r EXCEPT !.index = r.index + 1]
          ELSE Respond([r EXCEPT !.index = r.index + 1], 200)]
  /\ UNCHANGED <<DB, now>>

\* the cleanup deleting the attachments of the rows it removes
ScheduledWithCleanup ==
  /\ DB' = SqlExpire(DB, now - CutoffSec)
  /\ IMAGES' = {e \in IMAGES : \A r \in DB \ DB' : \A i \in 1..Len(r.photos) : e.key # r.photos[i]}
  /\ UNCHANGED <<now, req>>

\* worker.js:79-83
Scheduled ==
  /\ DB' = SqlExpire(DB, now - CutoffSec)
  /\ UNCHANGED <<IMAGES, now, req>>

\* worker.js:146-167
HandleListApproved(s, query) ==
  /\ CanBegin(s)
  /\ \E resp \in ListApproved(DB, query) :
       req' = [req EXCEPT ![s] =
         Respond([Idle EXCEPT !.op = "feed", !.query = query, !.items = resp.items], resp.status)]
  /\ UNCHANGED <<DB, IMAGES, now>>

\* worker.js:169-186
HandleListPending(s) ==
  /\ CanBegin(s)
  /\ \E resp \in ListPending(DB) :
       req' = [req EXCEPT ![s] =
         Respond([req[s] EXCEPT !.op = "pending", !.items = resp.items], resp.status)]
  /\ UNCHANGED <<DB, IMAGES, now>>

\* a request to an admin path reaches the worker
Arrive(s, request) ==
  /\ req[s].op = "idle" /\ req[s].request = NoRequest
  /\ req' = [req EXCEPT ![s].request = request]
  /\ UNCHANGED <<DB, IMAGES, now>>

\* json(data, status, extraHeaders) from fetch itself
Answer(s, status, challenge) ==
  /\ CanBegin(s)
  /\ req' = [req EXCEPT ![s] =
       Respond([req[s] EXCEPT !.op = "fetch", !.challenge = challenge], status)]
  /\ UNCHANGED <<DB, IMAGES, now>>

\* worker.js:18-76 for a path under /api/admin/: the preflight, the gate,
\* the three routes, Not Found, and the catch of what isAuthorized throws
Fetch(s) ==
  LET request == req[s].request
      authorized == IsAuthorized(request.auth) IN
  /\ request # NoRequest
  /\ IF request.method = "OPTIONS" THEN Answer(s, 204, FALSE)
     ELSE IF authorized = "throws" THEN Answer(s, 500, FALSE)
     ELSE IF authorized = "false" THEN Answer(s, 401, TRUE)
     ELSE IF request.method = "GET" /\ request.route = "pending" THEN HandleListPending(s)
     ELSE IF request.method = "POST" /\ request.route = "approve"
       THEN HandleApprove(s, request.id)
     ELSE IF request.method = "POST" /\ request.route = "reject"
       THEN HandleReject(s, request.id)
     ELSE Answer(s, 404, FALSE)

\* the clock moves on
Tick ==
  /\ \E t \in Instants : t > now /\ now' = t
  /\ UNCHANGED <<DB, IMAGES, req>>

Next ==
  \/ \E s \in Slots, form \in Forms : HandleCreateSighting(s, form)
  \/ \E s \in Slots : CreateInsert(s)
  \/ \E s \in Slots : CreateInsertFails(s)
  \/ \E s \in Slots, id \in PathIds : HandleApprove(s, id)
  \/ \E s \in Slots, id \in PathIds : HandleReject(s, id)
  \/ \E s \in Slots : RejectDelete(s)
  \/ \E s \in Slots : RejectBlob(s)
  \/ Scheduled
  \/ Tick

Spec == Init /\ [][Next]_vars

\* the intake path alone, over every combination of field values
NextIntake ==
  \/ \E form \in AllForms : HandleCreateSighting(1, form)
  \/ CreateInsert(1)

SpecIntake == Init /\ [][NextIntake]_vars

\* the two listings read from the tables a sightings table can hold
InitFeed ==
  /\ DB \in FeedTables
  /\ IMAGES = {}
  /\ now = 0
  /\ req = [s \in Slots |-> Idle]

NextFeed ==
  \/ \E query \in {Query(l, o) : l \in Limits, o \in Offsets} : HandleListApproved(1, query)
  \/ HandleListPending(1)

SpecFeed == InitFeed /\ [][NextFeed]_vars

\* one submission, then one request to an admin path through fetch
NextAdmin ==
  \/ \E form \in Forms : HandleCreateSighting(1, form)
  \/ CreateInsert(1)
  \/ \E request \in AdminRequests : Arrive(2, request)
  \/ Fetch(2)
  \/ RejectDelete(2)
  \/ RejectBlob(2)

SpecAdmin == Init /\ [][NextAdmin]_vars

\* the clock of the model ends at its last instant: a record is written
\* while the instant that outdates it is still ahead
Horizon == MaxYears * TtlSec - CutoffSec
LiveSlots == {1, 2}

\* two requests, each a submission or an operator's decision, under a clock
\* that keeps moving and an hourly trigger that keeps firing
NextLive ==
  \/ \E s \in LiveSlots, form \in Forms : HandleCreateSighting(s, form)
  \/ \E s \in LiveSlots : now < Horizon /\ CreateInsert(s)
  \/ \E s \in LiveSlots : CreateInsertFails(s)
  \/ \E s \in LiveSlots, id \in PathIds : HandleApprove(s, id)
  \/ \E s \in LiveSlots, id \in PathIds : HandleReject(s, id)
  \/ \E s \in LiveSlots : RejectDelete(s)
  \/ \E s \in LiveSlots : RejectBlob(s)
  \/ Scheduled
  \/ Tick

SpecLive == Init /\ [][NextLive]_vars /\ WF_vars(Tick) /\ WF_vars(Scheduled)

\* ------------------------------------------------------------ properties
RowsOf(id) == {r \in DB : r.id = id}
Keys(photos) == {photos[i] : i \in 1..Len(photos)}
InFlightOn(id) ==
  \E s \in Slots : req[s].op \in {"approve", "reject"} /\ req[s].id = id /\ req[s].pc # "done"
Rejects(id) == {s \in Slots : req[s].op = "reject" /\ req[s].id = id}
Approves(id) == {s \in Slots : req[s].op = "approve" /\ req[s].id = id}

\* C1: every attachment key of every record in the table has a live blob,
\* whatever create, approve, reject, expiry and the clock have done.
C1_EveryKeyLive == \A r \in DB : \A k \in Keys(r.photos) : KvLive(IMAGES, k, now)

\* C2: once a created record is gone and nothing is in flight on its id,
\* none of the keys it held is left in the blob store.
C2_NoOrphanAfterDelete ==
  \A id \in Known :
    (RowsOf(id) = {} /\ ~InFlightOn(id)) =>
      \A k \in Keys(req[id].photos) : ~KvLive(IMAGES, k, now)

\* C3: when every reject of an id has completed, and one of them was called
\* on the existing record, the record lookup is absent, the image read of
\* each of its keys is 404, and every one of the calls answered ok.
C3_RejectRemovesAll ==
  \A s \in Slots :
    (/\ req[s].op = "reject" /\ req[s].found
     /\ \A s2 \in Rejects(req[s].id) : req[s2].pc = "done") =>
      /\ RowsOf(req[s].id) = {}
      /\ \A k \in Keys(req[s].photos) : HandleImage(k) = 404
      /\ \A s2 \in Rejects(req[s].id) : req[s2].status = 200
C3_Witness ==
  \E s1, s2 \in Slots :
    /\ s1 # s2 /\ req[s1].op = "reject" /\ req[s2].op = "reject"
    /\ req[s1].id = req[s2].id /\ req[s1].found /\ req[s2].found
    /\ req[s1].photos # <<>>
    /\ req[s1].pc = "done" /\ req[s2].pc = "done"

\* C4: an approved record has approved_at set, not before submitted_at.
C4_ApprovedHasTime ==
  \A r \in DB :
    r.status = "approved" => (r.approved_at # NULL /\ r.approved_at[1] >= r.submitted_at)
C4_Witness == \E r \in DB : r.status = "approved" /\ r.approved_at[1] > r.submitted_at

\* C5: a pending record has no approved_at; a record is pending or approved,
\* so nothing sets approved_at and leaves the record unapproved.
C5_PendingHasNoTime ==
  \A r \in DB :
    /\ r.status \in {"pending", "approved"}
    /\ r.status = "pending" => r.approved_at = NULL
C5_Witness ==
  /\ \E r \in DB : r.status = "pending"
  /\ \E s \in Slots : req[s].op = "approve" /\ req[s].changes = 1

\* C6: of all the approve calls on one id at most one reports changes = 1,
\* the others report 0.
C6_AtMostOneApprove ==
  \A id \in Slots \cup {UnknownId} :
    /\ Cardinality({s \in Approves(id) : req[s].changes = 1}) <= 1
    /\ \A s \in Approves(id) : req[s].changes \in {0, 1}
C6_Witness ==
  \E s1, s2 \in Slots :
    /\ req[s1].op = "approve" /\ req[s2].op = "approve" /\ req[s1].id = req[s2].id
    /\ req[s1].changes = 1 /\ req[s2].changes = 0

\* C7: an approve of an already approved record reports changes = 0 and
\* leaves the table as it was, approved_at included, whatever the clock.
C7_ApproveIdempotent ==
  [][\A s \in Slots :
       (/\ req[s].op = "idle" /\ req'[s].op = "approve"
        /\ \E r \in DB : r.id = req'[s].id /\ r.status = "approved") =>
         (req'[s].changes = 0 /\ DB' = DB)]_vars
C7_Witness ==
  \E s \in Slots :
    /\ req[s].op = "approve" /\ req[s].changes = 0
    /\ \E r \in DB : r.id = req[s].id /\ r.status = "approved" /\ r.approved_at[1] < now

\* what the intake contract calls a refused submission
Granted(form) == form.consent \in {Present("on"), Present("true")}
Refused(form) ==
  \/ Trim(OrElse(form.title, <<>>)) = <<>>
  \/ Trim(OrElse(form.description, <<>>)) = <<>>
  \/ ~Granted(form)

\* C8: a submission with an empty title or description, or without consent,
\* is answered 400 and neither store is written.
C8_RefusedWritesNothing ==
  \A s \in Slots :
    (req[s].op = "create" /\ Refused(req[s].form)) =>
      (req[s].pc = "done" /\ req[s].status = 400 /\ DB = {} /\ IMAGES = {})
C8_Witness ==
  \E s \in Slots :
    /\ req[s].op = "create" /\ req[s].pc = "done"
    /\ IsMultipart(req[s].form) /\ ~Granted(req[s].form)
    /\ Title(req[s].form) # <<>> /\ Description(req[s].form) # <<>>
    /\ AcceptedFiles(req[s].form) # <<>>

\* the meter the intake contract stores for an input
ContractMeter(field) ==
  LET n == Number(OrElse(field, <<"1">>)) IN
  IF n.nan THEN 1 ELSE IF n.v < 1 THEN 1 ELSE IF n.v > 10 THEN 10 ELSE n.v

\* C9: every accepted submission is stored, with a meter in 1..10: below 1
\* as 1, above 10 as 10, absent or non-numeric as 1, and no error.
C9_MeterClamped ==
  \A s \in Slots :
    (req[s].op = "create" /\ req[s].pc = "done" /\ ~Refused(req[s].form)
       /\ IsMultipart(req[s].form)) =>
      /\ req[s].status = 201
      /\ \E r \in DB :
           /\ r.id = req[s].id
           /\ r.suspicious_meter \in 1..10
           /\ r.suspicious_meter = ContractMeter(req[s].form.suspicious_meter)

\* the first attachment is over 1 MiB or not of an allowed type
FirstDropped(form) ==
  /\ form.photos # <<>>
  /\ form.photos[1].kind = "file"
  /\ (form.photos[1].size > 1048576
        \/ ToLowerCase(form.photos[1].type) \notin {"image/jpeg", "image/png", "image/webp"})

\* C10: a valid submission whose first attachment is too large or of a
\* disallowed type is answered 201 and stored with no attachment, and no
\* blob is written, whatever follows the first attachment.
C10_DroppedAttachment ==
  \A s \in Slots :
    (req[s].op = "create" /\ req[s].pc = "done" /\ ~Refused(req[s].form)
       /\ IsMultipart(req[s].form) /\ FirstDropped(req[s].form)) =>
      /\ req[s].status = 201
      /\ \E r \in DB : r.id = req[s].id /\ r.photos = <<>>
      /\ IMAGES = {}

\* a step of the scheduled cleanup: no request moves, the clock stands
CronStep == req' = req /\ now' = now

\* C11: the expiry removes exactly the pending records submitted more than
\* 48 hours before it runs; younger pending records and all approved
\* records stay.
C11_ExpiryExact ==
  [][CronStep =>
       DB' = {r \in DB : ~(r.status = "pending" /\ now - r.submitted_at > 48 * 60 * 60)}]_vars
C11_Witness ==
  /\ \E id \in Known : RowsOf(id) = {} /\ Rejects(id) = {}
  /\ \E r \in DB : r.status = "approved" /\ now - r.submitted_at > 48 * 60 * 60

\* C16: approve and reject of an id without a record change neither store;
\* approve answers ok with changes = 0 and reject answers ok, never 404.
C16_MissingIdNoOp ==
  [][\A s \in Slots :
       /\ (req[s].op = "idle" /\ req'[s].op = "approve" /\ RowsOf(req'[s].id) = {}) =>
            /\ req'[s].pc = "done" /\ req'[s].status = 200 /\ req'[s].changes = 0
            /\ DB' = DB /\ IMAGES' = IMAGES
       /\ (req'[s] # req[s] /\ req'[s].op = "reject" /\ ~req'[s].found) =>
            /\ req'[s].pc = "done" => req'[s].status = 200
            /\ DB' = DB /\ IMAGES' = IMAGES]_vars
C16_Witness ==
  /\ \E s \in Slots : req[s].op = "approve" /\ req[s].id = UnknownId /\ req[s].pc = "done"
  /\ \E s \in Slots :
       req[s].op = "reject" /\ req[s].id \in Known /\ ~req[s].found /\ req[s].pc = "done"

\* C17: the expiry changes no blob: the attachments of the records it
\* removes are as readable after it as before.
C17_ExpiryKeepsBlobs ==
  [][CronStep =>
       /\ IMAGES' = IMAGES
       /\ \A r \in DB \ DB' : \A k \in Keys(r.photos) :
            KvLive(IMAGES, k, now) => KvLive(IMAGES', k, now')]_vars
C17_Witness ==
  \E id \in Known :
    /\ RowsOf(id) = {} /\ Rejects(id) = {} /\ req[id].photos # <<>>
    /\ \A k \in Keys(req[id].photos) : HandleImage(k) = 200

\* the create whose record write failed after its blob was stored
WriteFailed(s) ==
  req[s].op = "create" /\ req[s].pc = "done" /\ req[s].status # 201 /\ req[s].photos # <<>>

\* C18: after the blob is stored and the record write fails, there is no
\* record of the id, the blob stays in the store, and the answer is 500;
\* a record is never written before its blobs.
C18_NoRollback ==
  /\ [](\A s \in Slots :
          WriteFailed(s) =>
            /\ req[s].status = 500
            /\ RowsOf(req[s].id) = {}
            /\ \A k \in Keys(req[s].photos) : \E e \in IMAGES : e.key = k)
  /\ [][\A r \in DB' \ DB :
          \A k \in Keys(r.photos) : \E e \in IMAGES : e.key = k]_vars
C18_Witness ==
  \E s \in Slots :
    /\ WriteFailed(s) /\ MeterConstraintOk(Meter(req[s].form))
    /\ \A k \in Keys(req[s].photos) : HandleImage(k) = 200

\* C12: the public feed holds only approved records, in descending order
\* of approved_at.
C12_FeedApprovedDesc ==
  \A s \in Slots :
    (req[s].op = "feed" /\ req[s].status = 200) =>
      LET items == req[s].items IN
      /\ \A i \in 1..Len(items) :
           \E r \in DB :
             /\ r.status = "approved" /\ r.id = items[i].id
             /\ r.approved_at = items[i].approved_at
      /\ \A i, j \in 1..Len(items) :
           items[i].approved_at[1] < items[j].approved_at[1] => j < i
C12_Witness ==
  \E s \in Slots :
    /\ req[s].op = "feed" /\ Len(req[s].items) >= 2
    /\ req[s].items[1].approved_at # req[s].items[2].approved_at
    /\ \E r \in DB : r.status = "pending"

\* C13: the moderation queue is exactly the pending records, each once, in
\* ascending order of submitted_at: a created id is in it from its insert
\* until it is approved, rejected or expired.
C13_QueueIsPending ==
  \A resp \in ListPending(DB) :
    LET items == resp.items IN
    /\ resp.status = 200
    /\ {items[i].id : i \in 1..Len(items)} = {r.id : r \in {x \in DB : x.status = "pending"}}
    /\ \A i, j \in 1..Len(items) : items[i].id = items[j].id => i = j
    /\ \A i, j \in 1..Len(items) : items[i].submitted_at < items[j].submitted_at => i < j
    /\ \A id \in Known :
         (\E i \in 1..Len(items) : items[i].id = id) <=>
           (\E r \in DB : r.id = id /\ r.approved_at = NULL)
C13_Witness ==
  /\ \E r1, r2 \in DB :
       r1.status = "pending" /\ r2.status = "pending" /\ r1.submitted_at < r2.submitted_at
  /\ \E id \in Known : RowsOf(id) = {}

\* the table with every reporter email replaced
WithEmail(db, email) == {[r EXCEPT !.email = email] : r \in db}

\* C14: the public feed has no email in it and is the same whatever the
\* emails in the table are; the moderation queue carries the email of every
\* pending record.
C14_EmailOnlyInQueue ==
  \A s \in Slots :
    /\ req[s].op = "feed" =>
         /\ \A i \in 1..Len(req[s].items) : "email" \notin DOMAIN req[s].items[i]
         /\ \A email \in {<<>>, <<"z">>} :
              ListApproved(WithEmail(DB, email), req[s].query) = ListApproved(DB, req[s].query)
    /\ req[s].op = "pending" =>
         \A r \in DB :
           r.status = "pending" =>
             \E i \in 1..Len(req[s].items) :
               req[s].items[i].id = r.id /\ req[s].items[i].email = r.email
C14_Witness ==
  \E s \in Slots :
    /\ req[s].op = "feed" /\ req[s].items # <<>>
    /\ \E r \in DB : r.id = req[s].items[1].id /\ r.email # <<>>

\* C15: whatever limit and offset are, the feed answers with a page of at
\* most 50 items, of at most 20 when no limit is given.
C15_PageBounded ==
  \A s \in Slots :
    req[s].op = "feed" =>
      /\ req[s].status = 200
      /\ Len(req[s].items) <= 50
      /\ req[s].query.limit = Absent => Len(req[s].items) <= 20

\* the credential of a header: what follows the first colon of the decoded
\* Basic credentials
Credential(auth) ==
  IF auth = Absent THEN Absent
  ELSE IF auth[1].scheme # "Basic " \/ ~auth[1].base64 THEN Absent
  ELSE IF \A i \in 1..Len(auth[1].creds) : auth[1].creds[i] # ":" THEN Absent
  ELSE LET creds == auth[1].creds
           i == CHOOSE k \in 1..Len(creds) :
                  creds[k] = ":" /\ \A j \in 1..(k - 1) : creds[j] # ":" IN
       Present(SubSeq(creds, i + 1, Len(creds)))
PresentsSecret(request) == Credential(request.auth) = Present(AdminPassword)

\* C19: approve, reject and the queue read run only for a request whose
\* credential is the operator secret; any other request to an admin path
\* is answered 401 with a challenge and changes neither store.
C19_AdminGate ==
  [][\A s \in Slots :
       (req[s].op = "idle" /\ req'[s].op # "idle" /\ req[s].request # NoRequest) =>
         /\ req'[s].op \in {"approve", "reject", "pending"} => PresentsSecret(req[s].request)
         /\ ~PresentsSecret(req[s].request) =>
              /\ req'[s].status = 401 /\ req'[s].challenge
              /\ DB' = DB /\ IMAGES' = IMAGES]_vars

\* C20: with the clock moving and the expiry trigger firing, a record does
\* not stay pending for ever: it is approved or it is gone, whether or not
\* the operator decides on it.
C20_PendingEnds ==
  \A id \in Slots :
    (\E r \in DB : r.id = id /\ r.status = "pending")
      ~> (\A r \in RowsOf(id) : r.status = "approved")
C20_Witness ==
  \E id \in Known :
    /\ RowsOf(id) = {} /\ Rejects(id) = {} /\ Approves(id) = {}
    /\ \A s \in Slots : req[s].op \in {"idle", "create"}

====
